---- MODULE Spec2Model ----
(***************************************************************************)
(* A model of the option-pricer repository: the triangular lattice         *)
(* container (BinaryTree), the binomial lattice pricer (CRRPricer), the    *)
(* closed-form pricer (BlackScholesPricer) and the Monte-Carlo pricer      *)
(* (BlackScholesMCPricer).                                                 *)
(*                                                                         *)
(* A behaviour constructs one pricer object and then calls its methods.    *)
(* The variables hold the object's fields under the names of the source,   *)
(* plus the observation of the last call: op (which call), args (its       *)
(* arguments), err (the exception it raised, or "none") and ret (what it   *)
(* returned).                                                              *)
(*                                                                         *)
(* generate() is modelled twice: as one step computing what the call       *)
(* leaves in the accumulators (MCGenerate), and thread by thread, the      *)
(* main thread spawning, joining and merging and every worker folding its  *)
(* chunk one path at a time (GenBegin and the actions of GenStep).         *)
(*                                                                         *)
(* double values are modelled as exact rationals <<num, den>> in lowest    *)
(* terms with den > 0, so floating-point rounding is not part of the       *)
(* model.  exp and sqrt are evaluated on an input grid where they are      *)
(* exact: exponents are measured in units of ln 2 (exp is then a power of  *)
(* two) and sqrt is taken of perfect squares.                              *)
(***************************************************************************)
EXTENDS Integers, Sequences, FiniteSets, Bags, TLC

\* ------------------------------------------------------------------------
\* Bounds of the model
\* ------------------------------------------------------------------------

\* largest lattice depth passed to a constructor (and largest index queried)
MaxDepth == 2

\* largest nb_paths passed to one generate call
MaxGen == 3

\* generate is not called to accumulate more paths than this
MaxTotalPaths == 4

\* largest depth of the BinaryTree used on its own
MaxTreeDepth == 1

\* ------------------------------------------------------------------------
\* Exact rational arithmetic standing for double arithmetic
\* ------------------------------------------------------------------------

Abs(x) == IF x < 0 THEN -x ELSE x

RECURSIVE Gcd(_, _)
Gcd(a, b) == IF b = 0 THEN a ELSE Gcd(b, a % b)

\* the rational n/d (d # 0) in lowest terms with a positive denominator
Rat(n, d) ==
  LET g == Gcd(Abs(n), Abs(d))
      s == IF d < 0 THEN -1 ELSE 1
  IN  <<(s * n) \div g, (s * d) \div g>>

RInt(n) == <<n, 1>>
Zero == RInt(0)
One == RInt(1)

RNeg(a) == <<-a[1], a[2]>>
\* over the least common denominator, to keep the products small
RAdd(a, b) ==
  LET g == Gcd(a[2], b[2]) IN
  Rat(a[1] * (b[2] \div g) + b[1] * (a[2] \div g), (a[2] \div g) * b[2])
RSub(a, b) == RAdd(a, RNeg(b))
\* cross-cancel before multiplying, to keep the products small
RMul(a, b) ==
  LET x == Rat(a[1], b[2])
      y == Rat(b[1], a[2])
  IN  <<x[1] * y[1], x[2] * y[2]>>
RInv(a) == Rat(a[2], a[1])
RDiv(a, b) == RMul(a, RInv(b))
\* cross-multiplied over the least common denominator
RLt(a, b) ==
  LET g == Gcd(a[2], b[2]) IN a[1] * (b[2] \div g) < b[1] * (a[2] \div g)
RLe(a, b) ==
  LET g == Gcd(a[2], b[2]) IN a[1] * (b[2] \div g) <= b[1] * (a[2] \div g)
RMax(a, b) == IF RLt(a, b) THEN b ELSE a

\* std::pow(x, k) for an integer k >= 0, and a loop of k multiplications
RECURSIVE RPow(_, _)
RPow(x, k) == IF k <= 0 THEN One ELSE RMul(x, RPow(x, k - 1))

\* std::exp of an exponent given in units of ln 2: a power of two
Exp2(k) == IF k >= 0 THEN RInt(2 ^ k) ELSE Rat(1, 2 ^ (-k))

\* is the rational x an integer
IsInt(x) == x[2] = 1

\* is the integer n a perfect square, and its root
IsSquare(n) == \E s \in 0..n : s * s = n
ISqrt(n) == CHOOSE s \in 0..n : s * s = n
\* std::sqrt on the rationals whose numerator and denominator are squares
SqrtExact(x) == x[1] >= 0 /\ IsSquare(x[1]) /\ IsSquare(x[2])
Sqrt(x) == <<ISqrt(x[1]), ISqrt(x[2])>>

\* ------------------------------------------------------------------------
\* Options (src/src/options)
\* ------------------------------------------------------------------------

\* a null Option*
nullptr == [kind |-> "nullptr"]

\* the strike of every option of the model
Strikes == {3}

\* option expiries: 0 (expired) and the depths, so that expiry/depth can be 1
Expiries == 0..MaxDepth

\* fixing-time sequences of the Asian options: increasing, with a repeated
\* time, starting at 0, and decreasing
AsianTimeSteps == {<<1, 2>>, <<1, 1>>, <<0, 1>>, <<2, 1>>, <<-1, 1>>}

\* AsianOption::AsianOption: the expiry is the last fixing time
AsianOption(k, ts, K) ==
  [kind |-> k, expiry |-> RInt(ts[Len(ts)]), strike |-> RInt(K),
   timeSteps |-> [j \in 1..Len(ts) |-> RInt(ts[j])]]

PlainOption(k, T, K) ==
  [kind |-> k, expiry |-> RInt(T), strike |-> RInt(K), timeSteps |-> <<>>]

EuropeanKinds == {"Call", "Put", "DigitalCall", "DigitalPut"}
AmericanKinds == {"AmericanCall", "AmericanPut"}
AsianKinds == {"AsianCall", "AsianPut"}

\* every kind with expiry 1; the vanilla call also expired and with the
\* other expiries
PlainOptions ==
  {PlainOption(k, 1, K) : k \in EuropeanKinds \cup AmericanKinds, K \in Strikes}
  \cup {PlainOption("Call", T, K) : T \in Expiries, K \in Strikes}
  \cup {PlainOption("AmericanPut", MaxDepth, K) : K \in Strikes}
AsianOptions ==
  {AsianOption(k, ts, K) : k \in AsianKinds, ts \in AsianTimeSteps, K \in Strikes}
Options == PlainOptions \cup AsianOptions

isAsianOption(o) == o.kind \in AsianKinds
isAmericanOption(o) == o.kind \in AmericanKinds
\* a variant of the cast that also succeeds on the digital options
isVanillaOption_orDigital(o) ==
  o.kind \in {"Call", "Put", "DigitalCall", "DigitalPut"}

\* dynamic_cast<EuropeanVanillaOption*>(option) succeeds
isVanillaOption(o) == o.kind \in {"Call", "Put"}
isDigitalOption(o) == o.kind \in {"DigitalCall", "DigitalPut"}
getOptionType(o) ==
  IF o.kind \in {"Call", "DigitalCall", "AmericanCall", "AsianCall"}
  THEN "Call" ELSE "Put"
getExpiry(o) == o.expiry
getStrike(o) == o.strike

\* Option::payoff of each concrete option class
payoff(o, s) ==
  LET K == o.strike IN
  CASE o.kind = "Call" -> IF RLt(K, s) THEN RSub(s, K) ELSE Zero
    [] o.kind = "Put" -> IF RLe(s, K) THEN RSub(K, s) ELSE Zero
    [] o.kind = "DigitalCall" -> IF RLe(K, s) THEN One ELSE Zero
    [] o.kind = "DigitalPut" -> IF RLe(s, K) THEN One ELSE Zero
    [] o.kind = "AmericanCall" -> RMax(RSub(s, K), Zero)
    [] o.kind = "AmericanPut" -> RMax(RSub(K, s), Zero)
    [] o.kind = "AsianCall" -> RMax(RSub(s, K), Zero)
    [] o.kind = "AsianPut" -> RMax(RSub(K, s), Zero)

\* ------------------------------------------------------------------------
\* BinaryTree<T> (include/option-pricer/datastruct/BinaryTree.tpp)
\* tree_[n + 1][i + 1] holds node (n, i): sequences are indexed from 1
\* ------------------------------------------------------------------------

\* BinaryTree<T>::BinaryTree(): depth_ 0 and no level allocated
DefaultTree == [depth_ |-> 0, tree_ |-> <<>>]

\* a variant of setDepth that resizes without clearing: a slot that
\* exists keeps its value
setDepth_keep(t, depth, dflt) ==
  [depth_ |-> depth,
   tree_ |-> [n \in 1..(depth + 1) |->
                [i \in 1..n |->
                   IF n <= Len(t.tree_) /\ i <= Len(t.tree_[n])
                   THEN t.tree_[n][i] ELSE dflt]]]

\* setDepth(depth) on the tree t for depth >= 0: every level reallocated
\* with T()
setDepth(t, depth, dflt) ==
  [depth_ |-> depth,
   tree_ |-> [n \in 1..(depth + 1) |-> [i \in 1..n |-> dflt]]]

\* a variant of setDepth that assigns depth_ before its test
setDepthFailed_assigned(t, depth) == [t EXCEPT !.depth_ = depth]

\* setDepth(depth) on the tree t for depth < 0: it throws before it touches
\* depth_ or tree_
setDepthFailed(t, depth) == t

\* checkIndices passes
checkIndices(t, n, i) == ~(n < 0 \/ n > t.depth_) /\ ~(i < 0 \/ i > n)

setNode(t, n, i, value) == [t EXCEPT !.tree_[n + 1][i + 1] = value]
getNode(t, n, i) == t.tree_[n + 1][i + 1]

\* ------------------------------------------------------------------------
\* State
\* ------------------------------------------------------------------------

VARIABLES
  pricer,                 \* "none", "crr", "mc", "bs", "failed" (the
                          \* constructor threw) or "aborted" (assert failed)
  option_,                \* Option* option_ of the pricer
  depth_, S0_, U_, D_, R_,              \* CRRPricer
  optionTree_, exerciseTree_, computed_,
  initial_price_, interest_rate_, volatility_,   \* BlackScholesMCPricer
  nb_paths_, estimate_, M2_, maturity_, time_steps_,
  drift_dt_, vol_sqrt_dt_, has_vanilla_control_, vanilla_control_mean_,
  strike_, asset_price_, is_digital_,   \* BlackScholesPricer
  op, args, err, ret,     \* the last call, its arguments and its outcome
  lazyComputes,           \* how often operator()(false) has run compute()
  bsControlCalls,         \* how often the constructor has run bs_control.price()
  workersStarted,         \* the threads the last generate() has started
  samples,                \* the bag of the samples folded into nb_paths_,
                          \* estimate_ and M2_ so far
  genPc,                  \* where the caller of generate() is: "idle" (not
                          \* in generate), "join" or "combine" (in that loop)
  genNext,                \* the worker the join or combine loop is at
  workers,                \* the worker threads of the call in progress
  partial,                \* std::vector<LocalStats> partial of that call
  merged,                 \* how often combine() has run on each partial[i]
  statsTouched,           \* how many steps of the call in progress have read
                          \* or written nb_paths_, estimate_ or M2_
  genSteps,               \* how many steps the threads of the last call
                          \* have taken since its spawn loop
  lattice,                \* a BinaryTree<int> of its own, or NoLattice
  discarded,              \* the nodes that held a value other than T() when
                          \* the last setDepth() began
  lastSet                 \* per node, the value of the last setNode() that
                          \* returned since the tree was last allocated

genVars == <<genPc, genNext, workers, partial, merged, statsTouched,
             genSteps>>
crrVars == <<depth_, S0_, U_, D_, R_, optionTree_, exerciseTree_, computed_>>
\* the fields of the Monte-Carlo pricer that only its constructor writes
mcConfig == <<initial_price_, maturity_, time_steps_, drift_dt_, vol_sqrt_dt_,
              has_vanilla_control_, vanilla_control_mean_, bsControlCalls>>
mcVars == <<initial_price_, nb_paths_, estimate_, M2_, maturity_, time_steps_,
            drift_dt_, vol_sqrt_dt_, has_vanilla_control_, vanilla_control_mean_,
            bsControlCalls, workersStarted, samples, genPc, genNext, workers,
            partial, merged, statsTouched, genSteps>>
bsVars == <<strike_, asset_price_, is_digital_>>
mktVars == <<interest_rate_, volatility_>>
obsVars == <<op, args, err, ret>>
treeVars == <<lattice, discarded, lastSet>>
vars == <<pricer, option_, crrVars, mcVars, bsVars, mktVars, obsVars,
          lazyComputes, treeVars>>

\* no BinaryTree constructed yet
NoLattice == [depth_ |-> -1, tree_ |-> <<>>]

\* T() of BinaryTree<int>
DefaultValue == 0

\* the nodes (n, i) a bounds check can let through, and the record of a
\* tree on which no setNode() has returned
Nodes == (0..MaxTreeDepth) \X (0..MaxTreeDepth)
NothingSet == [p \in Nodes |-> DefaultValue]

\* a call that returned nothing, and one that returned v
NoRet == <<>>
Ret(v) == <<v>>

Init ==
  /\ pricer = "none"
  /\ option_ = nullptr
  /\ depth_ = 0 /\ S0_ = Zero /\ U_ = Zero /\ D_ = Zero /\ R_ = Zero
  /\ optionTree_ = DefaultTree /\ exerciseTree_ = DefaultTree
  /\ computed_ = FALSE
  /\ initial_price_ = Zero /\ interest_rate_ = Zero /\ volatility_ = Zero
  /\ nb_paths_ = 0 /\ estimate_ = Zero /\ M2_ = Zero /\ maturity_ = Zero
  /\ time_steps_ = <<>> /\ drift_dt_ = <<>> /\ vol_sqrt_dt_ = <<>>
  /\ has_vanilla_control_ = FALSE /\ vanilla_control_mean_ = Zero
  /\ strike_ = Zero /\ asset_price_ = Zero /\ is_digital_ = FALSE
  /\ op = "none" /\ args = <<>> /\ err = "none" /\ ret = NoRet
  /\ lazyComputes = 0
  /\ bsControlCalls = 0 /\ workersStarted = 0
  /\ samples = EmptyBag
  /\ genPc = "idle" /\ genNext = 0 /\ workers = <<>> /\ partial = <<>>
  /\ merged = <<>> /\ statsTouched = 0 /\ genSteps = 0
  /\ lattice = NoLattice /\ discarded = 0 /\ lastSet = NothingSet

\* ------------------------------------------------------------------------
\* CRRPricer (src/src/pricing/CRRPricer.cpp)
\* ------------------------------------------------------------------------

\* the values passed as U, D, R to the factor-based constructor
FactorArgs ==
  {Rat(-3, 2), Rat(-1, 2), Rat(1, 4), Rat(1, 2), Rat(3, 4), Rat(3, 2)}

\* the options passed to the lattice pricer's constructors
CRROptionArgs ==
  PlainOptions \cup {nullptr}
  \cup {AsianOption(k, <<1, 2>>, K) : k \in AsianKinds, K \in Strikes}

\* the depths passed to the lattice pricer's constructors
DepthArgs == -1..MaxDepth

\* the initial spots passed to the lattice pricer
SpotArgs == {RInt(4)}

\* as_factor(x) throws
asFactorThrows(x) == RLe(RAdd(One, x), Zero)
as_factor(x) == RAdd(One, x)

\* a variant reading the arguments as returns when any of them is below 1
looks_like_return_any(U, D, R) == RLt(U, One) \/ RLt(D, One) \/ RLt(R, One)

looks_like_return(U, D, R) == RLt(U, One) /\ RLt(D, One) /\ RLt(R, One)

\* a variant of the arbitrage test that only compares U and D
arbitrage_upDownOnly(U, D, R) == ~RLt(D, U)

\* the arbitrage test of both constructors: !(D_ < R_ && R_ < U_)
arbitrage(U, D, R) == ~(RLt(D, R) /\ RLt(R, U))

\* a variant of setDepth without its test
setDepthThrows_never(depth) == FALSE

\* a variant of setDepth that also rejects depth 0
setDepthThrows_zero(depth) == depth <= 0

\* BinaryTree::setDepth(depth) throws std::invalid_argument
setDepthThrows(depth) == depth < 0

\* the factor-based constructor: the exception it throws ("none" if it
\* returns) and the factors it has stored by then
FactorCtor(option, depth, U, D, R) ==
  LET ret_ == looks_like_return(U, D, R)
      U1 == IF ret_ THEN as_factor(U) ELSE U
      D1 == IF ret_ THEN as_factor(D) ELSE D
      R1 == IF ret_ THEN as_factor(R) ELSE R
      threw ==
        \/ option = nullptr
        \/ isAsianOption(option)
        \/ ret_ /\ (asFactorThrows(U) \/ asFactorThrows(D) \/ asFactorThrows(R))
        \/ ~ret_ /\ (RLe(U, Zero) \/ RLe(D, Zero) \/ RLe(R, Zero))
        \/ arbitrage(U1, D1, R1)
        \/ RLe(U1, D1)
        \/ setDepthThrows(depth)
  IN  [err |-> IF threw THEN "invalid_argument" ELSE "none",
       U |-> U1, D |-> D1, R |-> R1]

ConstructFactors(option, depth, S0, U, D, R) ==
  \E c \in {FactorCtor(option, depth, U, D, R)} :
  /\ op' = "CRRPricer(U,D,R)"
  /\ args' = [option |-> option, depth |-> depth, S0 |-> S0,
              U |-> U, D |-> D, R |-> R]
  /\ err' = c.err
  /\ ret' = NoRet
  /\ IF c.err = "none"
     THEN /\ pricer' = "crr"
          /\ option_' = option /\ depth_' = depth /\ S0_' = S0
          /\ U_' = c.U /\ D_' = c.D /\ R_' = c.R
          /\ optionTree_' = setDepth(DefaultTree, depth, Zero)
          /\ exerciseTree_' = setDepth(DefaultTree, depth, FALSE)
          /\ UNCHANGED computed_
     ELSE /\ pricer' = "failed"
          /\ UNCHANGED <<option_, crrVars>>
  /\ UNCHANGED <<mcVars, bsVars, mktVars, lazyComputes, treeVars>>

\* the rates and volatilities passed to the rate/volatility constructor, in
\* units of ln 2 per unit of time (volatility: per square root of time)
RateArgs == {RInt(-1), Zero, One, RInt(2)}
VolArgs == {Zero, One, RInt(2)}

\* the inputs of the rate/volatility constructor on which sqrt and exp are
\* exact; with depth <= 0 or a null option it throws before computing them
RateCtorExact(option, depth, r, volatility) ==
  IF option = nullptr \/ depth <= 0 THEN TRUE
  ELSE LET dt == RDiv(getExpiry(option), RInt(depth)) IN
       /\ SqrtExact(dt)
       /\ IsInt(RMul(volatility, Sqrt(dt)))
       /\ IsInt(RMul(r, dt))

RateCtor(option, depth, r, volatility) ==
  IF option = nullptr \/ depth <= 0
  THEN [err |-> "invalid_argument", U |-> Zero, D |-> Zero, R |-> Zero]
  ELSE
    LET expiry == getExpiry(option)
        dt == RDiv(expiry, RInt(depth))
        sigma_step == RMul(volatility, Sqrt(dt))
        U1 == Exp2(sigma_step[1])
        D1 == Exp2(-sigma_step[1])
        R1 == Exp2(RMul(r, dt)[1])
        threw == arbitrage(U1, D1, R1) \/ RLe(U1, D1)
    IN  [err |-> IF threw THEN "invalid_argument" ELSE "none",
         U |-> U1, D |-> D1, R |-> R1]

ConstructRate(option, depth, S0, r, volatility) ==
  /\ RateCtorExact(option, depth, r, volatility)
  /\ \E c \in {RateCtor(option, depth, r, volatility)} :
       /\ op' = "CRRPricer(r,sigma)"
       /\ args' = [option |-> option, depth |-> depth, S0 |-> S0,
                   r |-> r, volatility |-> volatility]
       /\ err' = c.err
       /\ ret' = NoRet
       /\ IF c.err = "none"
          THEN /\ pricer' = "crr"
               /\ option_' = option /\ depth_' = depth /\ S0_' = S0
               /\ U_' = c.U /\ D_' = c.D /\ R_' = c.R
               /\ optionTree_' = setDepth(DefaultTree, depth, Zero)
               /\ exerciseTree_' = setDepth(DefaultTree, depth, FALSE)
               /\ UNCHANGED computed_
          ELSE /\ pricer' = "failed"
               /\ UNCHANGED <<option_, crrVars>>
       /\ UNCHANGED <<mcVars, bsVars, mktVars, lazyComputes, treeVars>>

\* the risk-neutral probability q = (R - D) / (U - D)
riskNeutralQ(U, D, R) == RDiv(RSub(R, D), RSub(U, D))

\* the spot of terminal node i: S0 * D^depth, then i times the ratio U / D
terminalSpot(depth, S0, U, D, i) ==
  RMul(RMul(S0, RPow(D, depth)), RPow(RDiv(U, D), i))

\* the setNode calls of one level n: level[i + 1] is the value and the
\* exercise flag of node (n, i)
setLevel(trees, n, level) ==
  [option |-> [trees.option EXCEPT !.tree_[n + 1] =
                 [i \in 1..(n + 1) |-> level[i].value]],
   exercise |-> [trees.exercise EXCEPT !.tree_[n + 1] =
                 [i \in 1..(n + 1) |-> level[i].exercise]]]

\* compute(), the terminal level: the payoff and the exercise flag of each
\* node (depth, i)
terminalNode(o, pay) ==
  [value |-> pay, exercise |-> isAmericanOption(o) /\ RLt(Zero, pay)]

computeTerminal(o, depth, S0, U, D, trees) ==
  setLevel(trees, depth,
           [i \in 1..(depth + 1) |->
              terminalNode(o, payoff(o, terminalSpot(depth, S0, U, D, i - 1)))])

\* a variant of the induction step that exercises only when the intrinsic
\* value is strictly above the continuation value
inductNode_strict(o, S0, U, D, R, ot, n, i) ==
  LET q == riskNeutralQ(U, D, R)
      up == getNode(ot, n + 1, i + 1)
      down == getNode(ot, n + 1, i)
      cont == RDiv(RAdd(RMul(q, up), RMul(RSub(One, q), down)), R)
      spot == RMul(RMul(S0, RPow(U, i)), RPow(D, n - i))
      intrinsic == payoff(o, spot)
  IN  IF isAmericanOption(o) /\ RLt(cont, intrinsic)
      THEN [value |-> intrinsic, exercise |-> TRUE]
      ELSE [value |-> cont, exercise |-> FALSE]

\* a variant of the induction step that never exercises early
inductNode_european(o, S0, U, D, R, ot, n, i) ==
  LET q == riskNeutralQ(U, D, R)
      up == getNode(ot, n + 1, i + 1)
      down == getNode(ot, n + 1, i)
      cont == RDiv(RAdd(RMul(q, up), RMul(RSub(One, q), down)), R)
  IN  [value |-> cont, exercise |-> FALSE]

\* compute(), one node (n, i) of the backward induction
inductNode(o, S0, U, D, R, ot, n, i) ==
  LET q == riskNeutralQ(U, D, R)
      up == getNode(ot, n + 1, i + 1)
      down == getNode(ot, n + 1, i)
      cont == RDiv(RAdd(RMul(q, up), RMul(RSub(One, q), down)), R)
      spot == RMul(RMul(S0, RPow(U, i)), RPow(D, n - i))
      intrinsic == payoff(o, spot)
  IN  IF isAmericanOption(o) /\ RLe(cont, intrinsic)
      THEN [value |-> intrinsic, exercise |-> TRUE]
      ELSE [value |-> cont, exercise |-> FALSE]

\* compute(), the backward induction over the levels n, n - 1, ..., 0
RECURSIVE backwardInduction(_, _, _, _, _, _, _)
backwardInduction(o, S0, U, D, R, trees, n) ==
  IF n < 0 THEN trees
  ELSE
    LET level == [i \in 1..(n + 1) |->
                    inductNode(o, S0, U, D, R, trees.option, n, i - 1)]
    IN  backwardInduction(o, S0, U, D, R, setLevel(trees, n, level), n - 1)

\* compute(): both trees afterwards
compute(o, depth, S0, U, D, R, trees) ==
  backwardInduction(o, S0, U, D, R,
                    computeTerminal(o, depth, S0, U, D, trees), depth - 1)

CRRCompute ==
  /\ pricer = "crr"
  /\ \E t \in {compute(option_, depth_, S0_, U_, D_, R_,
                       [option |-> optionTree_, exercise |-> exerciseTree_])} :
       /\ optionTree_' = t.option
       /\ exerciseTree_' = t.exercise
  /\ computed_' = TRUE
  /\ op' = "compute" /\ args' = <<>> /\ err' = "none" /\ ret' = NoRet
  /\ UNCHANGED <<pricer, option_, depth_, S0_, U_, D_, R_, mcVars,
                 bsVars, mktVars, lazyComputes, treeVars>>

\* get(n, i) and getExercise(n, i) on the tree t: assert(computed_), then
\* BinaryTree::getNode.  A failing assert aborts the program; a build with
\* NDEBUG has no assert.  The build is not part of the state: the call does
\* not change the pricer, so a state reached by mixing the two outcomes is
\* also reached by the behaviour of one build that leaves out the earlier
\* calls before compute().
nodeQuery(name, t, n, i) ==
  /\ op' = name
  /\ args' = [n |-> n, i |-> i]
  /\ \/ /\ ~computed_
        /\ pricer' = "aborted" /\ err' = "abort" /\ ret' = NoRet
     \/ /\ pricer' = pricer
        /\ IF checkIndices(t, n, i)
           THEN err' = "none" /\ ret' = Ret(getNode(t, n, i))
           ELSE err' = "out_of_range" /\ ret' = NoRet
  /\ UNCHANGED <<option_, crrVars, mcVars, bsVars, mktVars, lazyComputes,
                 treeVars>>

\* the node indices the model queries
NodeArgs == 0..MaxDepth

CRRGet ==
  /\ pricer = "crr"
  /\ \E n \in NodeArgs, i \in NodeArgs : nodeQuery("get", optionTree_, n, i)

CRRGetExercise ==
  /\ pricer = "crr"
  /\ \E n \in NodeArgs, i \in NodeArgs :
       nodeQuery("getExercise", exerciseTree_, n, i)

\* binom_coeff(N, k), by the multiplicative formula over min(k, N - k) steps
RECURSIVE binomLoop(_, _, _, _)
binomLoop(N, m, j, c) ==
  IF j > m THEN c
  ELSE binomLoop(N, m, j + 1, RDiv(RMul(c, RInt(N - m + j)), RInt(j)))

\* a variant whose loop starts at j = 2
binom_coeff_fromTwo(N, k) ==
  IF k < 0 \/ k > N THEN Zero
  ELSE LET m == IF k < N - k THEN k ELSE N - k IN binomLoop(N, m, 2, One)

binom_coeff(N, k) ==
  IF k < 0 \/ k > N THEN Zero
  ELSE LET m == IF k < N - k THEN k ELSE N - k IN binomLoop(N, m, 1, One)

\* operator()(true), the sum over the terminal nodes i, i + 1, ..., depth
RECURSIVE closedFormSum(_, _, _, _, _, _, _)
closedFormSum(o, depth, S0, U, D, q, i) ==
  IF i > depth THEN Zero
  ELSE
    LET comb == binom_coeff(depth, i)
        prob == RMul(RPow(q, i), RPow(RSub(One, q), depth - i))
        term == RMul(RMul(comb, prob),
                     payoff(o, terminalSpot(depth, S0, U, D, i)))
    IN  RAdd(term, closedFormSum(o, depth, S0, U, D, q, i + 1))

closedForm(o, depth, S0, U, D, R) ==
  RDiv(closedFormSum(o, depth, S0, U, D, riskNeutralQ(U, D, R), 0),
       RPow(R, depth))

\* a variant that rejects the closed form for Asian options instead
closedFormRejected_asian(o, closed_form) == isAsianOption(o) /\ closed_form

\* operator()(closed_form) throws std::logic_error
closedFormRejected(o, closed_form) == isAmericanOption(o) /\ closed_form

\* a variant that computes the lattice on every call
mustCompute_always(computed) == TRUE

\* operator()(false) runs compute(): if (!computed_)
mustCompute(computed) == ~computed

\* operator()(closed_form)
callOperator(closed_form) ==
  /\ op' = "operator()"
  /\ args' = [closed_form |-> closed_form]
  /\ IF closedFormRejected(option_, closed_form)
     THEN /\ err' = "logic_error" /\ ret' = NoRet
          /\ UNCHANGED <<crrVars, lazyComputes>>
     ELSE IF ~closed_form
     THEN \E t \in {IF mustCompute(computed_)
                     THEN compute(option_, depth_, S0_, U_, D_, R_,
                                  [option |-> optionTree_,
                                   exercise |-> exerciseTree_])
                     ELSE [option |-> optionTree_,
                           exercise |-> exerciseTree_]} :
              /\ optionTree_' = t.option
              /\ exerciseTree_' = t.exercise
              /\ computed_' = TRUE
              /\ lazyComputes' = IF mustCompute(computed_)
                                 THEN lazyComputes + 1 ELSE lazyComputes
              /\ err' = "none"
              /\ ret' = Ret(getNode(t.option, 0, 0))
              /\ UNCHANGED <<depth_, S0_, U_, D_, R_>>
     ELSE /\ err' = "none"
          /\ ret' = Ret(closedForm(option_, depth_, S0_, U_, D_, R_))
          /\ UNCHANGED <<crrVars, lazyComputes>>
  /\ UNCHANGED <<pricer, option_, mcVars, bsVars, mktVars, treeVars>>

\* ------------------------------------------------------------------------
\* BlackScholesPricer (src/src/pricing/BlackScholesPricer.cpp)
\*
\* Rates and volatilities are plain numbers here.  erfc, exp and log are
\* irrational off a few points; the model evaluates them to two decimals.
\* ------------------------------------------------------------------------

\* normalCdf at the knots 0, 0.5, 1, ..., 3, in hundredths
cdfKnots == <<50, 69, 84, 93, 98, 99, 100>>

\* normalCdf(x) for x >= 0: linear between the knots, 1 from 3 on
cdfUpper(x) ==
  LET twice == RMul(RInt(2), x)
      j == twice[1] \div twice[2]
  IN  IF j >= Len(cdfKnots) - 1 THEN One
      ELSE RAdd(Rat(cdfKnots[j + 1], 100),
                RMul(Rat(cdfKnots[j + 2] - cdfKnots[j + 1], 100),
                     RSub(twice, RInt(j))))

\* normalCdf(x) = 0.5 * erfc(-x / sqrt(2))
normalCdf(x) == IF RLe(Zero, x) THEN cdfUpper(x) ELSE RSub(One, cdfUpper(RNeg(x)))

\* std::exp(x) at the integers 0, -1, ..., -4
expDigits == <<100, 37, 14, 5, 2>>
Exp(x) == Rat(expDigits[1 - x[1]], 100)
ExpExact(x) == IsInt(x) /\ -x[1] \in 0..(Len(expDigits) - 1)

\* std::log(x) at 1/2, 1 and 2
Log(x) ==
  CASE x = One -> Zero
    [] x = RInt(2) -> Rat(69, 100)
    [] x = Rat(1, 2) -> Rat(-69, 100)
LogExact(x) == x \in {One, RInt(2), Rat(1, 2)}

\* x < kMinVolatility (1e-12): no volatility of the model lies in (0, 1e-12)
belowMinVolatility(x) == RLe(x, Zero)

\* computeDValues(), called with expiry > 0 and volatility >= kMinVolatility:
\* the max() with kMinMaturity, kMinVolatility and kMinPrice keep the values
computeDValues(o, K, S, r, sigma) ==
  LET T == getExpiry(o)
      denominator == RMul(sigma, Sqrt(T))
      d1 == RDiv(RAdd(Log(RDiv(S, K)),
                      RMul(RAdd(r, RMul(Rat(1, 2), RMul(sigma, sigma))), T)),
                 denominator)
  IN  [d1 |-> d1, d2 |-> RSub(d1, denominator)]

\* a variant of price() for which an expired option is worth nothing
bsPrice_expiredWorthless(o, digital, K, S, r, sigma) ==
  LET T == getExpiry(o) IN
  IF RLe(T, Zero) \/ belowMinVolatility(sigma) THEN Zero
  ELSE
    LET d == computeDValues(o, K, S, r, sigma)
        discount == Exp(RNeg(RMul(r, T)))
    IN  IF ~digital
        THEN IF getOptionType(o) = "Call"
             THEN RSub(RMul(S, normalCdf(d.d1)),
                       RMul(RMul(K, discount), normalCdf(d.d2)))
             ELSE RSub(RMul(RMul(K, discount), normalCdf(RNeg(d.d2))),
                       RMul(S, normalCdf(RNeg(d.d1))))
        ELSE IF getOptionType(o) = "Call"
             THEN RMul(discount, normalCdf(d.d2))
             ELSE RMul(discount, normalCdf(RNeg(d.d2)))

\* price() of a pricer with a non-null option
bsPrice(o, digital, K, S, r, sigma) ==
  LET T == getExpiry(o) IN
  IF RLe(T, Zero) \/ belowMinVolatility(sigma) THEN payoff(o, S)
  ELSE
    LET d == computeDValues(o, K, S, r, sigma)
        discount == Exp(RNeg(RMul(r, T)))
    IN  IF ~digital
        THEN IF getOptionType(o) = "Call"
             THEN RSub(RMul(S, normalCdf(d.d1)),
                       RMul(RMul(K, discount), normalCdf(d.d2)))
             ELSE RSub(RMul(RMul(K, discount), normalCdf(RNeg(d.d2))),
                       RMul(S, normalCdf(RNeg(d.d1))))
        ELSE IF getOptionType(o) = "Call"
             THEN RMul(discount, normalCdf(d.d2))
             ELSE RMul(discount, normalCdf(RNeg(d.d2)))

\* the inputs on which price() evaluates sqrt, exp and log on their grids
bsExact(o, K, S, r, sigma) ==
  LET T == getExpiry(o) IN
  IF RLe(T, Zero) \/ belowMinVolatility(sigma) THEN TRUE
  ELSE /\ SqrtExact(T)
       /\ ExpExact(RNeg(RMul(r, T)))
       /\ RLt(Zero, S) /\ RLt(Zero, K) /\ LogExact(RDiv(S, K))

\* the market data passed to the closed-form and Monte-Carlo pricers
AssetPriceArgs == {RInt(3), RInt(6)}
InterestArgs == {Zero, One}
VolatilityArgs == {Zero, One}

\* the expired options passed to the closed-form pricer
ExpiredOptions == {PlainOption(k, 0, K) : k \in EuropeanKinds, K \in Strikes}

\* both constructors: no check of the option pointer, the strike is read
\* from a non-null option
ConstructBS(option, digital, asset_price, interest_rate, volatility) ==
  /\ op' = IF digital THEN "BlackScholesPricer(digital)"
           ELSE "BlackScholesPricer(vanilla)"
  /\ args' = [option |-> option, asset_price |-> asset_price,
              interest_rate |-> interest_rate, volatility |-> volatility]
  /\ err' = "none" /\ ret' = NoRet
  /\ pricer' = "bs"
  /\ option_' = option
  /\ strike_' = IF option # nullptr THEN getStrike(option) ELSE Zero
  /\ asset_price_' = asset_price
  /\ interest_rate_' = interest_rate
  /\ volatility_' = volatility
  /\ is_digital_' = digital
  /\ UNCHANGED <<crrVars, mcVars, lazyComputes, treeVars>>

\* BlackScholesPricer(EuropeanVanillaOption*, ...)
BSPricerVanilla ==
  /\ pricer = "none" /\ lattice = NoLattice
  /\ \E option \in {o \in PlainOptions \cup ExpiredOptions : isVanillaOption(o)}
                  \cup {nullptr},
        S \in AssetPriceArgs, r \in InterestArgs, sigma \in VolatilityArgs :
       ConstructBS(option, FALSE, S, r, sigma)

\* BlackScholesPricer(EuropeanDigitalOption*, ...)
BSPricerDigital ==
  /\ pricer = "none" /\ lattice = NoLattice
  /\ \E option \in {o \in PlainOptions \cup ExpiredOptions : isDigitalOption(o)}
                  \cup {nullptr},
        S \in AssetPriceArgs, r \in InterestArgs, sigma \in VolatilityArgs :
       ConstructBS(option, TRUE, S, r, sigma)

\* what a read through a null or dangling pointer may return
Garbage == {Zero, One}

\* price() and operator()(): option_->getExpiry() on a null option_ is
\* undefined behaviour, a crash or a garbage result
bsCall(name) ==
  /\ pricer = "bs"
  /\ op' = name /\ args' = <<>>
  /\ IF option_ = nullptr
     THEN \/ pricer' = "aborted" /\ err' = "crash" /\ ret' = NoRet
          \/ \E g \in Garbage : pricer' = pricer /\ err' = "none" /\ ret' = Ret(g)
     ELSE /\ bsExact(option_, strike_, asset_price_, interest_rate_, volatility_)
          /\ pricer' = pricer
          /\ err' = "none"
          /\ ret' = Ret(bsPrice(option_, is_digital_, strike_, asset_price_,
                                interest_rate_, volatility_))
  /\ UNCHANGED <<option_, crrVars, mcVars, bsVars, mktVars,
                 lazyComputes, treeVars>>

BSPrice == bsCall("price")

BSCall == bsCall("operator()")

\* ------------------------------------------------------------------------
\* BlackScholesMCPricer (src/src/pricing/BlackScholesMCPricer.cpp)
\* ------------------------------------------------------------------------

\* the options passed to the Monte-Carlo pricer's constructor
MCOptionArgs ==
  {o \in PlainOptions : o.expiry \in {Zero, One}} \cup AsianOptions \cup {nullptr}

\* the fixing times the constructor caches: the option's for an Asian
\* option, the expiry alone otherwise
cachedTimeSteps(o) == IF isAsianOption(o) THEN o.timeSteps ELSE <<getExpiry(o)>>

\* a variant that never advances last_t
lastTime_zero(ts, i) == Zero

\* the time before fixing time i (0 before the first)
lastTime(ts, i) == IF i = 1 THEN Zero ELSE ts[i - 1]

\* the validation loop throws at some fixing time
timeStepsThrow(ts) == \E i \in 1..Len(ts) : RLt(ts[i], lastTime(ts, i))

\* the constructor: the exception it throws ("none" if it returns) and the
\* fields it has set by then
MCCtor(option, initial_price, interest_rate, volatility) ==
  IF option = nullptr
  THEN [err |-> "invalid_argument"]
  ELSE
    LET ts == cachedTimeSteps(option)
        drift == RSub(interest_rate,
                      RMul(Rat(1, 2), RMul(volatility, volatility)))
        dt(i) == RSub(ts[i], lastTime(ts, i))
        vanilla == ~isAsianOption(option) /\ isVanillaOption(option)
    IN  IF timeStepsThrow(ts)
        THEN [err |-> "invalid_argument"]
        ELSE [err |-> "none",
              time_steps |-> ts,
              drift_dt |-> [i \in 1..Len(ts) |-> RMul(drift, dt(i))],
              vol_sqrt_dt |-> [i \in 1..Len(ts) |-> RMul(volatility, Sqrt(dt(i)))],
              maturity |-> ts[Len(ts)],
              has_vanilla_control |-> vanilla,
              control_calls |-> IF vanilla THEN 1 ELSE 0,
              vanilla_control_mean |->
                IF vanilla
                THEN bsPrice(option, FALSE, getStrike(option), initial_price,
                             interest_rate, volatility)
                ELSE Zero]

\* the inputs on which the constructor evaluates sqrt, exp and log on their
\* grids (nothing is kept of them when it throws)
mcExact(option, initial_price, interest_rate, volatility) ==
  IF option = nullptr THEN TRUE
  ELSE LET ts == cachedTimeSteps(option) IN
       IF timeStepsThrow(ts) THEN TRUE
       ELSE /\ \A i \in 1..Len(ts) : SqrtExact(RSub(ts[i], lastTime(ts, i)))
            /\ isVanillaOption(option) =>
                 bsExact(option, getStrike(option), initial_price,
                         interest_rate, volatility)

ConstructMC(option, initial_price, interest_rate, volatility) ==
  /\ mcExact(option, initial_price, interest_rate, volatility)
  /\ \E c \in {MCCtor(option, initial_price, interest_rate, volatility)} :
       /\ op' = "BlackScholesMCPricer"
       /\ args' = [option |-> option, initial_price |-> initial_price,
                   interest_rate |-> interest_rate, volatility |-> volatility]
       /\ err' = c.err /\ ret' = NoRet
       /\ IF c.err = "none"
          THEN /\ pricer' = "mc"
               /\ option_' = option
               /\ initial_price_' = initial_price
               /\ interest_rate_' = interest_rate
               /\ volatility_' = volatility
               /\ time_steps_' = c.time_steps
               /\ drift_dt_' = c.drift_dt
               /\ vol_sqrt_dt_' = c.vol_sqrt_dt
               /\ maturity_' = c.maturity
               /\ has_vanilla_control_' = c.has_vanilla_control
               /\ vanilla_control_mean_' = c.vanilla_control_mean
               /\ bsControlCalls' = bsControlCalls + c.control_calls
               /\ UNCHANGED <<nb_paths_, estimate_, M2_, workersStarted,
                              samples, genVars>>
          ELSE /\ pricer' = "failed"
               /\ UNCHANGED <<option_, mcVars, mktVars>>
       /\ UNCHANGED <<crrVars, bsVars, lazyComputes, treeVars>>

\* the market data passed to the Monte-Carlo pricer
MCMarketArgs ==
  {<<RInt(3), Zero, Zero>>, <<RInt(6), Zero, One>>, <<RInt(6), One, One>>}

MCPricer ==
  /\ pricer = "none" /\ lattice = NoLattice
  /\ \E option \in MCOptionArgs, m \in MCMarketArgs :
       ConstructMC(option, m[1], m[2], m[3])

\* LocalStats{}
emptyStats == [n |-> 0, mean |-> Zero, M2 |-> Zero]

\* update_local(sample): one step of Welford's algorithm
update_local(stats, sample) ==
  LET n == stats.n + 1
      delta == RSub(sample, stats.mean)
      mean == RAdd(stats.mean, RDiv(delta, RInt(n)))
      delta2 == RSub(sample, mean)
  IN  [n |-> n, mean |-> mean, M2 |-> RAdd(stats.M2, RMul(delta, delta2))]

\* a variant that adds the control mean to the discounted payoff
controlled_added(discounted, has_control, control_mean) ==
  IF has_control THEN RAdd(discounted, control_mean) ELSE discounted

\* the sample folded for a discounted payoff: with the control variate,
\* discounted - discounted + vanilla_control_mean_
controlled(discounted, has_control, control_mean) ==
  IF has_control THEN RAdd(RSub(discounted, discounted), control_mean)
  ELSE discounted

\* a variant that folds every simulated path
canFold_always(generated, paths) == TRUE

\* a sample is folded: generated < paths (payoffPath never returns an empty
\* vector for a path of at least one step)
canFold(generated, paths) == generated < paths

\* the samples one iteration of the while loop passes to update_local: draw
\* is the pair of discounted payoffs of the two antithetic paths
iterationSamples(generated, paths, draw, has_control, control_mean) ==
  LET foldPos == canFold(generated, paths)
      generatedPos == IF foldPos THEN generated + 1 ELSE generated
  IN  (IF foldPos
       THEN <<controlled(draw[1], has_control, control_mean)>> ELSE <<>>)
      \o (IF canFold(generatedPos, paths)
          THEN <<controlled(draw[2], has_control, control_mean)>> ELSE <<>>)

\* update_local of the samples of q, one after the other
RECURSIVE foldSamples(_, _)
foldSamples(stats, q) ==
  IF q = <<>> THEN stats ELSE foldSamples(update_local(stats, Head(q)), Tail(q))

\* simulate_chunk(paths), one iteration of the while loop: every folded
\* sample goes through update_local and counts as generated
chunkIteration(stats, generated, paths, draw, has_control, control_mean) ==
  LET folded == iterationSamples(generated, paths, draw, has_control,
                                 control_mean)
  IN  [stats |-> foldSamples(stats, folded),
       generated |-> generated + Len(folded),
       folded |-> folded]

\* simulate_chunk(paths), the while loop from its iteration `it` on;
\* draws[it] is the pair of discounted payoffs of iteration `it`
RECURSIVE chunkLoop(_, _, _, _, _, _, _)
chunkLoop(stats, generated, paths, it, draws, has_control, control_mean) ==
  IF ~(generated < paths) THEN stats
  ELSE
    LET r == chunkIteration(stats, generated, paths, draws[it], has_control,
                            control_mean)
    IN  chunkLoop(r.stats, r.generated, paths, it + 1, draws, has_control,
                  control_mean)

\* the statistics simulate_chunk(paths) returns
simulate_chunk(paths, draws, has_control, control_mean) ==
  IF paths <= 0 THEN emptyStats
  ELSE chunkLoop(emptyStats, 0, paths, 1, draws, has_control, control_mean)

\* the samples the while loop folds from its iteration `it` on
RECURSIVE chunkSamplesFrom(_, _, _, _, _, _)
chunkSamplesFrom(generated, paths, it, draws, has_control, control_mean) ==
  IF ~(generated < paths) THEN <<>>
  ELSE
    LET folded == iterationSamples(generated, paths, draws[it], has_control,
                                   control_mean)
    IN  folded \o chunkSamplesFrom(generated + Len(folded), paths, it + 1,
                                   draws, has_control, control_mean)

\* the samples simulate_chunk(paths) has folded
chunkSamples(paths, draws, has_control, control_mean) ==
  IF paths <= 0 THEN <<>>
  ELSE chunkSamplesFrom(0, paths, 1, draws, has_control, control_mean)

\* a variant of combine without the term of the two means
combine_noCross(total, s) ==
  IF s.n = 0 THEN total
  ELSE IF total.n = 0 THEN s
  ELSE
    LET new_n == total.n + s.n
        delta == RSub(s.mean, total.mean)
    IN  [n |-> new_n,
         mean |-> RAdd(total.mean, RMul(delta, Rat(s.n, new_n))),
         M2 |-> RAdd(total.M2, s.M2)]

\* combine(s) into the running statistics total = (nb_paths_, estimate_, M2_)
combine(total, s) ==
  IF s.n = 0 THEN total
  ELSE IF total.n = 0 THEN s
  ELSE
    LET new_n == total.n + s.n
        delta == RSub(s.mean, total.mean)
    IN  [n |-> new_n,
         mean |-> RAdd(total.mean, RMul(delta, Rat(s.n, new_n))),
         M2 |-> RAdd(total.M2,
                     RAdd(s.M2, RMul(RMul(delta, delta),
                                     Rat(total.n * s.n, new_n))))]

\* the loop over partial: combine(partial[i]), ..., combine(partial[count])
RECURSIVE combineAll(_, _, _)
combineAll(total, slots, i) ==
  IF i > Len(slots) THEN total
  ELSE LET s == slots[i] IN combineAll(combine(total, s), slots, i + 1)

Min(a, b) == IF a < b THEN a ELSE b
Max(a, b) == IF a < b THEN b ELSE a

\* the number of workers of generate(nb_paths), nb_paths > 0
threadCount(nb_paths, hw) == Min(nb_paths, Max(1, hw))

\* a variant that gives the remainder to the last workers
workerPaths_remainderLast(nb_paths, thread_count, i) ==
  (nb_paths \div thread_count) +
  (IF i - 1 >= thread_count - (nb_paths % thread_count) THEN 1 ELSE 0)

\* the paths of worker i (1-based here, 0-based in the source)
workerPaths(nb_paths, thread_count, i) ==
  (nb_paths \div thread_count) +
  (IF i - 1 < nb_paths % thread_count THEN 1 ELSE 0)

\* the iterations of simulate_chunk(paths): two samples each
iterations(paths) == (paths + 1) \div 2

\* does a path draw no random number: every increment is zero
noDraw == \A i \in 1..Len(drift_dt_) : drift_dt_[i] = Zero /\ vol_sqrt_dt_[i] = Zero

\* Option::payoffPath and AsianOption::payoffPath of the path that stays at s
payoffPathConstant(o, s, steps) ==
  IF steps = 0 THEN <<>> ELSE <<payoff(o, s)>>

\* the discounted payoffs a path can have: a random draw moves the spot
\* anywhere, and without one the spot stays at initial_price_
SampleVals == {Zero, RInt(2)}

discountedPayoffs ==
  IF noDraw
  THEN {RMul(Exp(RNeg(RMul(interest_rate_, maturity_))),
             payoffPathConstant(option_, initial_price_, Len(time_steps_))[1])}
  ELSE SampleVals

\* the values std::thread::hardware_concurrency() returns (0: unknown)
HwArgs == {0, 1, 2}

\* a variant of generate that clears the statistics on entry
generateStats_reset(nb_paths, hw, draws, total) ==
  IF nb_paths <= 0 THEN emptyStats
  ELSE
    LET thread_count == threadCount(nb_paths, hw)
        slots == [i \in 1..thread_count |->
                      simulate_chunk(workerPaths(nb_paths, thread_count, i),
                                     draws[i], has_vanilla_control_,
                                     vanilla_control_mean_)]
    IN  combineAll(emptyStats, slots, 1)

\* the statistics after generate(nb_paths) of a pricer whose statistics
\* were total: unchanged for nb_paths <= 0, else the partial statistics of
\* the workers combined into them one by one
generateStats(nb_paths, hw, draws, total) ==
  IF nb_paths <= 0 THEN total
  ELSE
    LET thread_count == threadCount(nb_paths, hw)
        slots == [i \in 1..thread_count |->
                      simulate_chunk(workerPaths(nb_paths, thread_count, i),
                                     draws[i], has_vanilla_control_,
                                     vanilla_control_mean_)]
    IN  combineAll(total, slots, 1)

\* the bag of the elements of the sequence q
RECURSIVE BagOfSeq(_)
BagOfSeq(q) ==
  IF q = <<>> THEN EmptyBag ELSE SetToBag({Head(q)}) (+) BagOfSeq(Tail(q))

\* the samples the workers 1..upTo of generate(nb_paths) have folded
RECURSIVE generateSamples(_, _, _, _)
generateSamples(nb_paths, hw, draws, upTo) ==
  IF nb_paths <= 0 \/ upTo = 0 THEN EmptyBag
  ELSE
    LET thread_count == threadCount(nb_paths, hw) IN
    BagOfSeq(chunkSamples(workerPaths(nb_paths, thread_count, upTo),
                          draws[upTo], has_vanilla_control_,
                          vanilla_control_mean_))
    (+) generateSamples(nb_paths, hw, draws, upTo - 1)

\* the threads generate(nb_paths) starts
generateWorkers(nb_paths, hw) ==
  IF nb_paths <= 0 THEN 0 ELSE threadCount(nb_paths, hw)

\* generate(nb_paths) on a machine with hw hardware threads, the workers
\* drawing the discounted payoffs draws[i][it]
generate(nb_paths, hw, draws) ==
  /\ op' = "generate"
  /\ args' = [nb_paths |-> nb_paths, hw |-> hw]
  /\ err' = "none" /\ ret' = NoRet
  /\ \E total \in {generateStats(nb_paths, hw, draws,
                                  [n |-> nb_paths_, mean |-> estimate_,
                                   M2 |-> M2_])} :
       /\ nb_paths_' = total.n
       /\ estimate_' = total.mean
       /\ M2_' = total.M2
  /\ workersStarted' = generateWorkers(nb_paths, hw)
  /\ samples' = samples (+) generateSamples(nb_paths, hw, draws,
                                             generateWorkers(nb_paths, hw))
  /\ UNCHANGED <<pricer, option_, crrVars, bsVars, mktVars, mcConfig,
                 genVars, lazyComputes, treeVars>>

MCGenerate ==
  /\ pricer = "mc" /\ genPc = "idle"
  /\ \E nb_paths \in -1..MaxGen, hw \in HwArgs :
       /\ nb_paths_ + nb_paths <= MaxTotalPaths
       /\ LET w == IF nb_paths <= 0 THEN 0 ELSE threadCount(nb_paths, hw)
              its == IF nb_paths <= 0 THEN 0
                     ELSE iterations(workerPaths(nb_paths, w, 1))
          IN  \E draws \in [1..w -> [1..its ->
                              discountedPayoffs \X discountedPayoffs]] :
                generate(nb_paths, hw, draws)

MCGetNbPaths ==
  /\ pricer = "mc" /\ genPc = "idle"
  /\ op' = "getNbPaths" /\ args' = <<>>
  /\ err' = "none" /\ ret' = Ret(nb_paths_)
  /\ UNCHANGED <<pricer, option_, crrVars, mcVars, bsVars, mktVars,
                 lazyComputes, treeVars>>

\* price() and operator()()
mcCall(name) ==
  /\ pricer = "mc" /\ genPc = "idle"
  /\ op' = name /\ args' = <<>>
  /\ IF nb_paths_ = 0
     THEN err' = "logic_error" /\ ret' = NoRet
     ELSE err' = "none" /\ ret' = Ret(estimate_)
  /\ UNCHANGED <<pricer, option_, crrVars, mcVars, bsVars, mktVars,
                 lazyComputes, treeVars>>

MCPrice == mcCall("price")

\* the least number of hundredths whose square is at least x, from k on
RECURSIVE sqrtUpFrom(_, _)
sqrtUpFrom(x, k) ==
  IF k * k * x[2] >= 10000 * x[1] THEN k ELSE sqrtUpFrom(x, k + 1)

\* std::sqrt(x) for x >= 0 to two decimals, rounded up: 0 only at 0
SqrtUp(x) == Rat(sqrtUpFrom(x, 0), 100)

\* the double m + e * epsilon, epsilon = std::numeric_limits<double>::epsilon()
\* (2^-52): the values of the model are far enough apart for the order of
\* two such numbers to be the order of the pairs
WithEps(m, e) == <<m, e>>
EpsLt(a, b) == RLt(a[1], b[1]) \/ (a[1] = b[1] /\ RLt(a[2], b[2]))
EpsLe(a, b) == a = b \/ EpsLt(a, b)

\* a variant that keeps a standard error of zero
flooredStdErr_none(std_err, estimate) == WithEps(std_err, Zero)

\* std_err, replaced by epsilon * (1 + |estimate_|) when it is 0.0
flooredStdErr(std_err, estimate) ==
  IF std_err = Zero
  THEN WithEps(Zero, RAdd(One, IF RLt(estimate, Zero) THEN RNeg(estimate)
                                                       ELSE estimate))
  ELSE WithEps(std_err, Zero)

\* a variant of the guard that asks for three paths
tooFewPaths_three(nb_paths) == nb_paths < 3

\* confidenceInterval() throws: nb_paths_ < 2
tooFewPaths(nb_paths) == nb_paths < 2

\* the bounds confidenceInterval() returns with nb_paths_ >= 2
interval(nb_paths, estimate, M2) ==
  LET variance == RDiv(M2, RInt(nb_paths - 1))
      std_err == flooredStdErr(SqrtUp(RDiv(variance, RInt(nb_paths))),
                               estimate)
      z == Rat(196, 100)
  IN  <<WithEps(RSub(estimate, RMul(z, std_err[1])),
                RNeg(RMul(z, std_err[2]))),
        WithEps(RAdd(estimate, RMul(z, std_err[1])),
                RMul(z, std_err[2]))>>

MCConfidenceInterval ==
  /\ pricer = "mc" /\ genPc = "idle"
  /\ op' = "confidenceInterval" /\ args' = <<>>
  /\ IF tooFewPaths(nb_paths_)
     THEN err' = "logic_error" /\ ret' = NoRet
     ELSE err' = "none" /\ ret' = Ret(interval(nb_paths_, estimate_, M2_))
  /\ UNCHANGED <<pricer, option_, crrVars, mcVars, bsVars, mktVars,
                 lazyComputes, treeVars>>

MCCall == mcCall("operator()")

CRRCall ==
  /\ pricer = "crr"
  /\ \E closed_form \in BOOLEAN : callOperator(closed_form)

CRRPricerFactors ==
  /\ pricer = "none" /\ lattice = NoLattice
  /\ \E option \in CRROptionArgs, depth \in DepthArgs, S0 \in SpotArgs,
        U \in FactorArgs, D \in FactorArgs, R \in FactorArgs :
       ConstructFactors(option, depth, S0, U, D, R)

CRRPricerRate ==
  /\ pricer = "none" /\ lattice = NoLattice
  /\ \E option \in CRROptionArgs, depth \in DepthArgs, S0 \in SpotArgs,
        r \in RateArgs, volatility \in VolArgs :
       ConstructRate(option, depth, S0, r, volatility)

\* ------------------------------------------------------------------------
\* generate() thread by thread (src/src/pricing/BlackScholesMCPricer.cpp)
\*
\* The same call as MCGenerate, one step per statement of the caller and
\* one step per loop iteration of each worker thread, the steps of the
\* threads interleaved in every order.
\* ------------------------------------------------------------------------

\* the mutable objects a step accesses: the LocalStats stats of worker i,
\* its slot partial[i], its thread_local distribution, and the function-local
\* static std::mt19937 gen of MT::generator(), one per process (owner 0)
localStats(i) == <<"stats", i>>
resultSlot(i) == <<"partial", i>>
distribution(i) == <<"dist", i>>
generatorState == <<"gen", 0>>

\* what one iteration of worker i accesses: MT::rand_norm() is called in
\* every time step whose drift or volatility increment is not zero
iterationAccesses(i) ==
  {localStats(i)} \cup (IF noDraw THEN {} ELSE {distribution(i), generatorState})

\* the threads the spawn loop starts: worker i with its share of the paths,
\* LocalStats{} and nothing accessed yet
spawnWorkers(nb_paths, hw) ==
  LET thread_count == threadCount(nb_paths, hw) IN
  [i \in 1..thread_count |->
     [paths |-> workerPaths(nb_paths, thread_count, i),
      generated |-> 0, stats |-> emptyStats, pc |-> "running",
      folded |-> EmptyBag, touched |-> {}]]

\* everything the steps of generate() leave alone
genFrame == <<pricer, option_, crrVars, bsVars, mktVars, mcConfig,
              lazyComputes, treeVars>>

\* generate(nb_paths) up to the end of the spawn loop; with nb_paths <= 0
\* the whole call
GenBegin ==
  /\ pricer = "mc" /\ genPc = "idle"
  /\ \E nb_paths \in -1..MaxGen, hw \in HwArgs :
       /\ nb_paths_ + nb_paths <= MaxTotalPaths
       /\ op' = "generate" /\ args' = [nb_paths |-> nb_paths, hw |-> hw]
       /\ err' = "none" /\ ret' = NoRet
       /\ workersStarted' = generateWorkers(nb_paths, hw)
       /\ IF nb_paths <= 0
          THEN UNCHANGED genVars
          ELSE /\ genPc' = "join" /\ genNext' = 1
               /\ workers' = spawnWorkers(nb_paths, hw)
               /\ partial' = [i \in 1..threadCount(nb_paths, hw) |-> emptyStats]
               /\ merged' = [i \in 1..threadCount(nb_paths, hw) |-> 0]
               /\ statsTouched' = 0
               /\ genSteps' = 0
  /\ UNCHANGED <<genFrame, nb_paths_, estimate_, M2_, samples>>

\* one iteration of the while loop of simulate_chunk in worker i
WorkerIterate ==
  /\ pricer = "mc" /\ genPc # "idle"
  /\ \E i \in 1..Len(workers) :
       /\ workers[i].pc = "running"
       /\ workers[i].generated < workers[i].paths
       /\ \E draw \in discountedPayoffs \X discountedPayoffs :
            \E r \in {chunkIteration(workers[i].stats, workers[i].generated,
                                      workers[i].paths, draw,
                                      has_vanilla_control_,
                                      vanilla_control_mean_)} :
              workers' = [workers EXCEPT ![i] =
                            [@ EXCEPT !.stats = r.stats,
                                      !.generated = r.generated,
                                      !.folded = @ (+) BagOfSeq(r.folded),
                                      !.touched = @ \cup iterationAccesses(i)]]
  /\ genSteps' = genSteps + 1
  /\ UNCHANGED <<genFrame, obsVars, nb_paths_, estimate_, M2_, samples,
                 workersStarted, genPc, genNext, partial, merged,
                 statsTouched>>

\* worker i leaves the loop: partial[i] = simulate_chunk(paths), and the
\* thread ends
WorkerStore ==
  /\ pricer = "mc" /\ genPc # "idle"
  /\ \E i \in 1..Len(workers) :
       /\ workers[i].pc = "running"
       /\ ~(workers[i].generated < workers[i].paths)
       /\ partial' = [partial EXCEPT ![i] = workers[i].stats]
       /\ workers' = [workers EXCEPT ![i] =
                        [@ EXCEPT !.pc = "finished",
                                  !.touched = @ \cup {resultSlot(i)}]]
  /\ genSteps' = genSteps + 1
  /\ UNCHANGED <<genFrame, obsVars, nb_paths_, estimate_, M2_, samples,
                 workersStarted, genPc, genNext, merged, statsTouched>>

\* a variant of join() that returns at once
joinReturns_atOnce(w) == TRUE

\* t.join() returns: the thread has ended
joinReturns(w) == w.pc = "finished"

\* one iteration of the join loop
MainJoin ==
  /\ pricer = "mc" /\ genPc = "join"
  /\ joinReturns(workers[genNext])
  /\ IF genNext = Len(workers)
     THEN genPc' = "combine" /\ genNext' = 1
     ELSE genPc' = genPc /\ genNext' = genNext + 1
  /\ genSteps' = genSteps + 1
  /\ UNCHANGED <<genFrame, obsVars, nb_paths_, estimate_, M2_, samples,
                 workersStarted, workers, partial, merged, statsTouched>>

\* one iteration of the combine loop: combine(partial[genNext])
MainCombine ==
  /\ pricer = "mc" /\ genPc = "combine"
  /\ genNext <= Len(partial)
  /\ \E total \in {combine([n |-> nb_paths_, mean |-> estimate_, M2 |-> M2_],
                             partial[genNext])} :
       /\ nb_paths_' = total.n
       /\ estimate_' = total.mean
       /\ M2_' = total.M2
  /\ samples' = samples (+) workers[genNext].folded
  /\ merged' = [merged EXCEPT ![genNext] = @ + 1]
  /\ statsTouched' = statsTouched + 1
  /\ genNext' = genNext + 1
  /\ genSteps' = genSteps + 1
  /\ UNCHANGED <<genFrame, obsVars, workersStarted, genPc, workers, partial>>

\* generate() returns: partial and workers are destroyed
GenReturn ==
  /\ pricer = "mc" /\ genPc = "combine"
  /\ genNext > Len(partial)
  /\ genPc' = "idle" /\ genNext' = 0
  /\ workers' = <<>> /\ partial' = <<>> /\ merged' = <<>>
  /\ statsTouched' = 0
  /\ genSteps' = genSteps + 1
  /\ UNCHANGED <<genFrame, obsVars, nb_paths_, estimate_, M2_, samples,
                 workersStarted>>

\* ------------------------------------------------------------------------
\* BinaryTree<int> on its own
\* ------------------------------------------------------------------------

\* the values passed to setNode, and what a read outside a vector may give
TreeValues == {0, 1}

\* the depths passed to BinaryTree(int) and setDepth
TreeDepthArgs == -1..MaxTreeDepth

\* the indices passed to setNode and getNode
TreeIndexArgs == -1..(MaxTreeDepth + 1)

\* the frame of every operation of the tree
pricerVars == <<option_, crrVars, mcVars, bsVars, mktVars, lazyComputes>>

\* tree_[n][i] is an element of the vectors
hasSlot(t, n, i) ==
  /\ n >= 0 /\ n < Len(t.tree_)
  /\ i >= 0 /\ i < Len(t.tree_[n + 1])

\* the nodes of t that hold a value other than T()
nonDefault(t) ==
  Cardinality({<<n, i>> \in (1..Len(t.tree_)) \X (1..(MaxTreeDepth + 2)) :
                 i <= Len(t.tree_[n]) /\ t.tree_[n][i] # DefaultValue})

\* BinaryTree<T>::BinaryTree()
TreeDefault ==
  /\ pricer = "none" /\ lattice = NoLattice
  /\ lattice' = DefaultTree
  /\ op' = "BinaryTree()" /\ args' = <<>> /\ err' = "none" /\ ret' = NoRet
  /\ UNCHANGED <<pricer, pricerVars, discarded, lastSet>>

\* BinaryTree<T>::BinaryTree(int depth): setDepth(depth) on the default
\* members; no object exists when it throws
TreeWithDepth ==
  /\ pricer = "none" /\ lattice = NoLattice
  /\ \E depth \in TreeDepthArgs :
       /\ op' = "BinaryTree(depth)" /\ args' = [depth |-> depth]
       /\ ret' = NoRet
       /\ IF setDepthThrows(depth)
          THEN err' = "invalid_argument" /\ UNCHANGED lattice
          ELSE /\ err' = "none"
               /\ lattice' = setDepth(DefaultTree, depth, DefaultValue)
  /\ UNCHANGED <<pricer, pricerVars, discarded, lastSet>>

\* setDepth(depth)
TreeSetDepth ==
  /\ pricer = "none" /\ lattice # NoLattice
  /\ \E depth \in TreeDepthArgs :
       /\ op' = "setDepth" /\ args' = [depth |-> depth]
       /\ ret' = NoRet
       /\ IF setDepthThrows(depth)
          THEN /\ err' = "invalid_argument"
               /\ lattice' = setDepthFailed(lattice, depth)
               /\ UNCHANGED lastSet
          ELSE /\ err' = "none"
               /\ lattice' = setDepth(lattice, depth, DefaultValue)
               /\ lastSet' = NothingSet
  /\ discarded' = nonDefault(lattice)
  /\ UNCHANGED <<pricer, pricerVars>>

\* depth()
TreeDepth ==
  /\ pricer = "none" /\ lattice # NoLattice
  /\ op' = "depth" /\ args' = <<>> /\ err' = "none"
  /\ ret' = Ret(lattice.depth_)
  /\ UNCHANGED <<pricer, pricerVars, treeVars>>

\* setNode(n, i, value): tree_[n][i] outside the vectors is undefined
\* behaviour, a crash or a write that the tree does not show
TreeSetNode ==
  /\ pricer = "none" /\ lattice # NoLattice
  /\ \E n \in TreeIndexArgs, i \in TreeIndexArgs, value \in TreeValues :
       /\ op' = "setNode" /\ args' = [n |-> n, i |-> i, value |-> value]
       /\ ret' = NoRet
       /\ IF ~checkIndices(lattice, n, i)
          THEN /\ err' = "out_of_range"
               /\ UNCHANGED <<pricer, lattice, lastSet>>
          ELSE IF hasSlot(lattice, n, i)
          THEN /\ err' = "none"
               /\ lattice' = setNode(lattice, n, i, value)
               /\ lastSet' = [lastSet EXCEPT ![<<n, i>>] = value]
               /\ UNCHANGED pricer
          ELSE \/ /\ pricer' = "aborted" /\ err' = "crash"
                  /\ UNCHANGED <<lattice, lastSet>>
               \/ /\ err' = "none"
                  /\ lastSet' = [lastSet EXCEPT ![<<n, i>>] = value]
                  /\ UNCHANGED <<pricer, lattice>>
  /\ UNCHANGED <<pricerVars, discarded>>

\* getNode(n, i): tree_[n][i] outside the vectors is undefined behaviour,
\* a crash or any value
TreeGetNode ==
  /\ pricer = "none" /\ lattice # NoLattice
  /\ \E n \in TreeIndexArgs, i \in TreeIndexArgs :
       /\ op' = "getNode" /\ args' = [n |-> n, i |-> i]
       /\ IF ~checkIndices(lattice, n, i)
          THEN /\ err' = "out_of_range" /\ ret' = NoRet
               /\ UNCHANGED pricer
          ELSE IF hasSlot(lattice, n, i)
          THEN /\ err' = "none" /\ ret' = Ret(getNode(lattice, n, i))
               /\ UNCHANGED pricer
          ELSE \/ pricer' = "aborted" /\ err' = "crash" /\ ret' = NoRet
               \/ \E g \in TreeValues :
                    err' = "none" /\ ret' = Ret(g) /\ UNCHANGED pricer
  /\ UNCHANGED <<pricerVars, treeVars>>

\* ------------------------------------------------------------------------
\* Specification
\* ------------------------------------------------------------------------

\* the lattice pricer alone
NextCRR ==
  \/ CRRPricerFactors
  \/ CRRPricerRate
  \/ CRRCompute
  \/ CRRGet
  \/ CRRGetExercise
  \/ CRRCall

\* the Monte-Carlo pricer alone
NextMC ==
  \/ MCPricer
  \/ MCGenerate
  \/ MCGetNbPaths
  \/ MCPrice
  \/ MCCall
  \/ MCConfidenceInterval

\* the closed-form pricer alone
NextBS ==
  \/ BSPricerVanilla
  \/ BSPricerDigital
  \/ BSPrice
  \/ BSCall

\* the steps inside a generate() call
GenStep ==
  \/ WorkerIterate
  \/ WorkerStore
  \/ MainJoin
  \/ MainCombine
  \/ GenReturn

\* the Monte-Carlo pricer with generate() thread by thread
NextGen ==
  \/ MCPricer
  \/ GenBegin
  \/ GenStep
  \/ MCPrice

\* the tree alone
NextTree ==
  \/ TreeDefault
  \/ TreeWithDepth
  \/ TreeSetDepth
  \/ TreeDepth
  \/ TreeSetNode
  \/ TreeGetNode

\* every operation of the model; generate() is there both as one step
\* (MCGenerate) and thread by thread (GenBegin, GenStep)
Next == NextCRR \/ NextMC \/ NextBS \/ NextTree \/ NextGen

SpecCRR == Init /\ [][NextCRR]_vars

SpecMC == Init /\ [][NextMC]_vars

SpecBS == Init /\ [][NextBS]_vars

SpecTree == Init /\ [][NextTree]_vars

SpecGen == Init /\ [][NextGen]_vars

\* a thread of the call in progress takes a step: every action of GenStep
\* is such a step, and one of them is enabled until the call has returned
GenTick == pricer = "mc" /\ genPc # "idle" /\ genSteps' = genSteps + 1

\* the scheduler runs a thread that can take a step in the end
SpecGenFair == SpecGen /\ WF_genSteps(GenTick)

Spec == Init /\ [][Next]_vars

\* ------------------------------------------------------------------------
\* Properties of the lattice pricer (checked under SpecCRR)
\* ------------------------------------------------------------------------

\* both trees of the pricer
trees == [option |-> optionTree_, exercise |-> exerciseTree_]

\* what operator()(false) returns in the current state
latticeRoot ==
  IF computed_ THEN getNode(optionTree_, 0, 0)
  ELSE getNode(compute(option_, depth_, S0_, U_, D_, R_, trees).option, 0, 0)

\* C1: on every lattice pricer with a non-American option, the price that
\* operator()(true) returns (the discrete closed form) equals the price that
\* operator()(false) returns (the root of the backward induction); the model
\* is exact, so the two are equal and not only within 1e-9.
C1_ClosedFormEqualsLattice ==
  (pricer = "crr" /\ op = "operator()" /\ err = "none" /\ args.closed_form)
    => ret = Ret(latticeRoot)

\* C1 witness: a closed-form price that is not zero, on a lattice of the
\* largest depth that has been computed
C1_Witness ==
  /\ pricer = "crr" /\ op = "operator()" /\ err = "none" /\ args.closed_form
  /\ depth_ = MaxDepth /\ computed_
  /\ ret # Ret(Zero)

noArbitrage == RLt(Zero, D_) /\ RLt(D_, R_) /\ RLt(R_, U_)

\* C2: a constructor that fails does so with std::invalid_argument, every
\* lattice pricer that exists satisfies 0 < D < R < U, and no operation on a
\* pricer changes U, D or R.
C2_NoArbitragePricer ==
  /\ [](pricer = "failed" => err = "invalid_argument")
  /\ [](pricer = "crr" => noArbitrage)
  /\ [][pricer = "crr" => (U_' = U_ /\ D_' = D_ /\ R_' = R_)]_vars

\* C2 witness: a pricer that was constructed, computed and queried
C2_Witness ==
  pricer = "crr" /\ computed_ /\ op = "getExercise" /\ err = "none"

\* the tree a node query reads
queriedTree == IF op = "get" THEN optionTree_ ELSE exerciseTree_

\* C3: get and getExercise before compute() fail with std::logic_error and
\* return nothing; after compute() they return the stored value of every
\* node in range.
C3_QueryBeforeComputeThrows ==
  (op \in {"get", "getExercise"}) =>
    IF ~computed_
    THEN err = "logic_error" /\ ret = NoRet
    ELSE checkIndices(queriedTree, args.n, args.i) =>
           ret = Ret(getNode(queriedTree, args.n, args.i))

\* C4: operator()(false) runs compute() exactly when the computed flag is
\* false, leaves the flag true and returns the root value: it triggers at
\* most one compute, and its result is the value at node (0,0).
C4_LazyCompute ==
  /\ []((pricer = "crr" /\ op = "operator()" /\ ~args.closed_form) =>
          (err = "none" /\ computed_ /\ ret = Ret(getNode(optionTree_, 0, 0))))
  /\ [](lazyComputes <= 1)
  /\ [][(pricer = "crr" /\ op' = "operator()" /\ ~args'.closed_form) =>
          lazyComputes' = lazyComputes + (IF computed_ THEN 0 ELSE 1)]_vars

\* C4 witness: operator()(false) has computed the lattice and was then
\* called again
C4_Witness ==
  /\ pricer = "crr" /\ op = "operator()" /\ ~args.closed_form
  /\ lazyComputes = 1 /\ depth_ = MaxDepth /\ ret # Ret(Zero)

\* C5: operator()(true) fails with std::logic_error exactly on an American
\* option, computed or not; operator()(false) always succeeds.
C5_ClosedFormAmericanOnly ==
  (pricer = "crr" /\ op = "operator()") =>
    /\ err = "logic_error" <=> (isAmericanOption(option_) /\ args.closed_form)
    /\ err \in {"none", "logic_error"}
    /\ err = "none" => ret # NoRet

\* C5 witness: the closed form refused on an American option whose lattice
\* is computed
C5_Witness ==
  /\ pricer = "crr" /\ op = "operator()" /\ args.closed_form
  /\ isAmericanOption(option_) /\ computed_ /\ err = "logic_error"

\* C6: no lattice pricer holds an Asian option: both constructors reject it.
C6_NoAsianLatticePricer ==
  pricer = "crr" => ~isAsianOption(option_)

\* the arguments of the factor-based constructor other than U, D, R allow
\* the construction
plainArgs(a) == a.option # nullptr /\ ~isAsianOption(a.option) /\ a.depth >= 0

\* U, D, R are positive growth factors with D < R < U
growthFactors(a) == RLt(Zero, a.D) /\ RLt(a.D, a.R) /\ RLt(a.R, a.U)

\* U, D, R are returns with -1 < d < r < u
returns(a) == RLt(RInt(-1), a.D) /\ RLt(a.D, a.R) /\ RLt(a.R, a.U)

storedUnchanged(a) == U_ = a.U /\ D_ = a.D /\ R_ = a.R
storedPlusOne(a) ==
  U_ = RAdd(One, a.U) /\ D_ = RAdd(One, a.D) /\ R_ = RAdd(One, a.R)

\* C7 as stated: every triple of growth factors is stored unchanged and
\* every triple of returns is stored as 1 + return.
C7_FactorsOrReturns ==
  (op = "CRRPricer(U,D,R)" /\ plainArgs(args)) =>
    /\ growthFactors(args) => (pricer = "crr" /\ storedUnchanged(args))
    /\ returns(args) => (pricer = "crr" /\ storedPlusOne(args))

\* C7 as amended: the arguments are read as returns exactly when all three
\* are below 1; growth factors with D < R < U and U >= 1 are stored
\* unchanged, returns with -1 < d < r < u < 1 are stored as 1 + return.
C7_FactorsOrReturnsBelowOne ==
  (op = "CRRPricer(U,D,R)" /\ plainArgs(args)) =>
    /\ (growthFactors(args) /\ RLe(One, args.U)) =>
         (pricer = "crr" /\ storedUnchanged(args))
    /\ (returns(args) /\ RLt(args.U, One)) =>
         (pricer = "crr" /\ storedPlusOne(args))

\* C7 witness: a pricer constructed from returns, one of them negative
C7_Witness ==
  /\ op = "CRRPricer(U,D,R)" /\ pricer = "crr"
  /\ RLt(args.D, Zero) /\ RLt(args.U, One) /\ storedPlusOne(args)

\* C8: with arguments that are valid otherwise, the factor-based
\* constructor fails (with std::invalid_argument) exactly when depth < 0;
\* the rate/volatility constructor fails for every depth <= 0.
C8_DepthValidation ==
  /\ (op = "CRRPricer(U,D,R)" /\ args.option # nullptr
      /\ ~isAsianOption(args.option)
      /\ \/ growthFactors(args) /\ RLe(One, args.U)
         \/ returns(args) /\ RLt(args.U, One)) =>
       /\ pricer = "failed" <=> args.depth < 0
       /\ pricer = "failed" => err = "invalid_argument"
       /\ pricer = "crr" => depth_ = args.depth
  /\ (op = "CRRPricer(r,sigma)" /\ args.depth <= 0) =>
       (pricer = "failed" /\ err = "invalid_argument")

\* C8 witness: a pricer of depth 0 from the factor-based constructor
C8_Witness ==
  op = "CRRPricer(U,D,R)" /\ pricer = "crr" /\ args.depth = 0 /\ depth_ = 0

\* ------------------------------------------------------------------------
\* Properties of construction (checked under Spec)
\* ------------------------------------------------------------------------

\* C9: no pricer of any kind holds a null option: every constructor throws
\* std::invalid_argument on a null option pointer.
C9_NoPricerHoldsNull ==
  pricer \in {"crr", "mc", "bs", "aborted"} => option_ # nullptr

\* ------------------------------------------------------------------------
\* Properties of the Monte-Carlo pricer (checked under SpecMC)
\* ------------------------------------------------------------------------

\* C10: every generate(k) adds exactly k paths to the count if k > 0 and
\* none otherwise, so the count never decreases and getNbPaths() is the sum
\* of the positive k.
C10_PathCount ==
  /\ [][(pricer = "mc" /\ op' = "generate") =>
          nb_paths_' = nb_paths_ +
                       (IF args'.nb_paths > 0 THEN args'.nb_paths ELSE 0)]_vars
  /\ [][nb_paths_' >= nb_paths_]_vars
  /\ [](op = "getNbPaths" => ret = Ret(nb_paths_))

\* C10 witness: generate(3) on two hardware threads (worker shares 2 and 1,
\* the second an odd share) after an earlier generate
C10_Witness ==
  /\ pricer = "mc" /\ op = "generate"
  /\ args.nb_paths = 3 /\ args.hw = 2 /\ nb_paths_ = 4
  /\ ~has_vanilla_control_

\* C11: price() and operator()() fail with std::logic_error exactly when
\* no path has been generated and return the running mean otherwise;
\* confidenceInterval() fails with std::logic_error exactly when fewer than
\* two paths have been generated and returns two bounds otherwise.
C11_PathsRequired ==
  pricer = "mc" =>
    /\ (op \in {"price", "operator()"}) =>
         /\ err = (IF nb_paths_ = 0 THEN "logic_error" ELSE "none")
         /\ ret = (IF nb_paths_ = 0 THEN NoRet ELSE Ret(estimate_))
    /\ op = "confidenceInterval" =>
         /\ err = (IF nb_paths_ < 2 THEN "logic_error" ELSE "none")
         /\ IF nb_paths_ < 2 THEN ret = NoRet ELSE Len(ret[1]) = 2

\* C11 witness: confidenceInterval() refused after generate(1) alone
C11_Witness ==
  /\ pricer = "mc" /\ op = "confidenceInterval" /\ err = "logic_error"
  /\ nb_paths_ = 1

\* C12: whenever confidenceInterval() returns, it returns two bounds
\* [low, high] with low < high and low <= price() <= high, also when M2 = 0.
C12_IntervalContainsPrice ==
  (pricer = "mc" /\ op = "confidenceInterval" /\ err = "none") =>
    /\ nb_paths_ >= 2
    /\ Len(ret[1]) = 2
    /\ EpsLt(ret[1][1], ret[1][2])
    /\ EpsLe(ret[1][1], WithEps(estimate_, Zero))
    /\ EpsLe(WithEps(estimate_, Zero), ret[1][2])

\* C12 witness: an interval of a pricer whose control variate has left no
\* variance, around a price that is not zero
C12_Witness ==
  /\ pricer = "mc" /\ op = "confidenceInterval" /\ err = "none"
  /\ has_vanilla_control_ /\ M2_ = Zero /\ estimate_ # Zero

\* BlackScholesPricer(option, spot, rate, volatility).price() for the
\* vanilla option and the market data of the Monte-Carlo pricer
closedFormOfPricer ==
  bsPrice(option_, FALSE, getStrike(option_), initial_price_, interest_rate_,
          volatility_)

\* C13: on a pricer of a European call or put with at least one path, the
\* running mean (and so price()) is the closed-form price of the same
\* option, spot, rate and volatility, and M2 is 0, whatever the draws, the
\* path count and the split over workers and calls.
C13_VanillaEqualsClosedForm ==
  (pricer = "mc" /\ option_.kind \in {"Call", "Put"} /\ nb_paths_ >= 1) =>
    /\ estimate_ = closedFormOfPricer
    /\ M2_ = Zero
    /\ (op \in {"price", "operator()"}) => ret = Ret(closedFormOfPricer)

\* C13 witness: price() of a call after four paths over random draws, the
\* last generate() split over two workers
C13_Witness ==
  /\ pricer = "mc" /\ option_.kind = "Call" /\ op = "price"
  /\ nb_paths_ = 4 /\ workersStarted = 2 /\ ~noDraw
  /\ ret # Ret(Zero)

C15_NonPositiveIsNoOp ==
  /\ [][(pricer = "mc" /\ op' = "generate" /\ args'.nb_paths <= 0) =>
          /\ err' = "none" /\ ret' = NoRet /\ pricer' = "mc"
          /\ workersStarted' = 0
          /\ nb_paths_' = nb_paths_ /\ estimate_' = estimate_
          /\ M2_' = M2_]_vars
  /\ [][(pricer = "mc" /\ nb_paths_' = 0 /\ op' = "price") =>
          err' = "logic_error"]_vars

\* C15 witness: generate(0) on a pricer that holds paths of differing
\* samples
C15_Witness ==
  /\ pricer = "mc" /\ op = "generate" /\ args.nb_paths = 0
  /\ nb_paths_ >= 2 /\ M2_ # Zero /\ estimate_ # Zero

\* the fixing times of the option passed to the constructor
fixingTimes(o) ==
  IF o.kind \in AsianKinds THEN o.timeSteps ELSE <<o.expiry>>

\* the time step that ends at fixing time i
fixingStep(ts, i) == RSub(ts[i], IF i = 1 THEN Zero ELSE ts[i - 1])

\* C16: the constructor of the Monte-Carlo pricer, given an option, fails
\* with std::invalid_argument exactly when some fixing time is smaller than
\* its predecessor (the first: than 0); otherwise the pricer holds the
\* fixing times, one drift and one volatility increment per fixing time
\* and the last fixing time as its maturity.
C16_FixingTimesValidated ==
  (op = "BlackScholesMCPricer" /\ args.option # nullptr) =>
    LET ts == fixingTimes(args.option)
        drift == RSub(args.interest_rate,
                      RMul(Rat(1, 2), RMul(args.volatility, args.volatility)))
    IN  IF \E i \in 1..Len(ts) : RLt(fixingStep(ts, i), Zero)
        THEN pricer = "failed" /\ err = "invalid_argument"
        ELSE /\ pricer = "mc" /\ err = "none"
             /\ time_steps_ = ts
             /\ Len(drift_dt_) = Len(ts) /\ Len(vol_sqrt_dt_) = Len(ts)
             /\ \A i \in 1..Len(ts) :
                  /\ drift_dt_[i] = RMul(drift, fixingStep(ts, i))
                  /\ RMul(vol_sqrt_dt_[i], vol_sqrt_dt_[i]) =
                       RMul(RMul(args.volatility, args.volatility),
                            fixingStep(ts, i))
             /\ maturity_ = ts[Len(ts)]

\* C16 witness: a pricer of an Asian option with two fixing times at the
\* same date, under a drift and a volatility that are not zero
C16_Witness ==
  /\ op = "BlackScholesMCPricer" /\ pricer = "mc"
  /\ isAsianOption(option_) /\ time_steps_ = <<One, One>>
  /\ drift_dt_[1] # Zero /\ vol_sqrt_dt_[1] # Zero

\* ------------------------------------------------------------------------
\* Properties of generate() thread by thread (checked under SpecGen)
\* ------------------------------------------------------------------------

\* the worker threads of the call in progress
workerIds == 1..Len(workers)

\* C23: during a generate call no two workers access the same mutable
\* object: each worker accesses only its own accumulator, its own result
\* slot and random-source state private to its thread.
C23_NoSharedMutableState ==
  /\ \A i \in workerIds :
       (workers[i].touched \ {generatorState}) \subseteq
         {localStats(i), resultSlot(i), distribution(i)}
  /\ \A i \in workerIds : \A j \in workerIds :
       i # j => workers[i].touched \cap workers[j].touched = {}

\* the sum of the samples of the bag B that lie in the set S
RECURSIVE bagTotal(_, _)
bagTotal(B, S) ==
  IF S = {} THEN Zero
  ELSE LET x == CHOOSE y \in S : TRUE
       IN  RAdd(RMul(RInt(CopiesIn(x, B)), x), bagTotal(B, S \ {x}))

\* the sum of the squared deviations from m of those samples
RECURSIVE bagSquares(_, _, _)
bagSquares(B, S, m) ==
  IF S = {} THEN Zero
  ELSE LET x == CHOOSE y \in S : TRUE
       IN  RAdd(RMul(RInt(CopiesIn(x, B)), RMul(RSub(x, m), RSub(x, m))),
                bagSquares(B, S \ {x}, m))

\* count, arithmetic mean and sum of squared deviations from the mean of
\* the samples of the bag B (all 0 for no sample, as LocalStats{})
exactStats(B) ==
  LET n == BagCardinality(B) IN
  IF n = 0 THEN [n |-> 0, mean |-> Zero, M2 |-> Zero]
  ELSE LET mean == RDiv(bagTotal(B, BagToSet(B)), RInt(n))
       IN  [n |-> n, mean |-> mean, M2 |-> bagSquares(B, BagToSet(B), mean)]

\* C24: at every point the pricer's (nb_paths_, estimate_, M2_) are the
\* count, the arithmetic mean and the sum of squared deviations from that
\* mean of the samples merged into them so far, and every worker's
\* accumulator and stored result are those of the samples it has folded,
\* whatever the split over workers and calls.
C24_WelfordChanExact ==
  /\ [n |-> nb_paths_, mean |-> estimate_, M2 |-> M2_] = exactStats(samples)
  /\ \A i \in workerIds :
       /\ workers[i].stats = exactStats(workers[i].folded)
       /\ workers[i].pc = "finished" => partial[i] = workers[i].stats

\* C24 witness: a second generate has returned, its two workers' results
\* merged into statistics of samples that differ
C24_Witness ==
  /\ pricer = "mc" /\ genPc = "idle" /\ op = "generate"
  /\ workersStarted = 2 /\ args.nb_paths < nb_paths_
  /\ nb_paths_ = MaxTotalPaths /\ BagCardinality(samples) = MaxTotalPaths
  /\ Cardinality(BagToSet(samples)) = 2 /\ M2_ # Zero

\* some worker of the call in progress has not ended
someWorkerRunning == \E i \in workerIds : workers[i].pc # "finished"

\* C25: in every generate(k) with k > 0 the running statistics are neither
\* read nor written while a worker is running; every call returns (so
\* every worker ends), each partial result has been merged exactly once by
\* then, and no worker is running when the call returns.
C25_JoinBeforeMerge ==
  /\ [](someWorkerRunning => statsTouched = 0)
  /\ [][someWorkerRunning =>
          (nb_paths_' = nb_paths_ /\ estimate_' = estimate_ /\ M2_' = M2_)]_vars
  /\ [](\A i \in 1..Len(merged) : merged[i] <= 1)
  /\ [][(genPc # "idle" /\ genPc' = "idle") =>
          /\ ~someWorkerRunning
          /\ \A i \in workerIds : merged[i] = 1]_vars
  /\ (genPc # "idle") ~> (genPc = "idle")

\* C25 witness: the combine loop of a call with two workers has ended
C25_Witness ==
  /\ pricer = "mc" /\ genPc = "combine" /\ genNext > Len(partial)
  /\ Len(workers) = 2 /\ merged = <<1, 1>> /\ statsTouched = 2
  /\ nb_paths_ > args.nb_paths

\* the paths of the workers i, i + 1, ... together
RECURSIVE sharesFrom(_)
sharesFrom(i) ==
  IF i > Len(workers) THEN 0 ELSE workers[i].paths + sharesFrom(i + 1)

\* C26: generate(k) with k > 0 starts w = min(k, max(1, hw)) workers, hw
\* being hardware_concurrency(); worker i (0-based) gets floor(k / w) + 1
\* paths if i < k mod w and floor(k / w) otherwise, so every worker gets a
\* path, two shares differ by at most one, no worker gets fewer than a
\* later one, and the shares sum to k.
C26_EvenPartition ==
  (pricer = "mc" /\ genPc # "idle") =>
    LET k == args.nb_paths
        cores == IF args.hw < 1 THEN 1 ELSE args.hw
        w == IF k < cores THEN k ELSE cores
    IN  /\ k > 0
        /\ Len(workers) = w /\ workersStarted = w
        /\ \A i \in workerIds :
             /\ workers[i].paths =
                  (k \div w) + (IF i - 1 < k % w THEN 1 ELSE 0)
             /\ workers[i].paths >= 1
        /\ \A i \in workerIds : \A j \in workerIds :
             /\ workers[i].paths - workers[j].paths <= 1
             /\ i < j => workers[i].paths >= workers[j].paths
        /\ sharesFrom(1) = k

\* C26 witness: generate(3) on two hardware threads, the shares 2 and 1
C26_Witness ==
  /\ pricer = "mc" /\ genPc = "join"
  /\ args.nb_paths = 3 /\ args.hw = 2
  /\ Len(workers) = 2 /\ workers[1].paths = 2 /\ workers[2].paths = 1

\* ------------------------------------------------------------------------
\* Properties of the tree (checked under SpecTree)
\* ------------------------------------------------------------------------

\* C17: every tree that exists holds exactly depth() + 1 levels, level n
\* holding exactly n + 1 slots, so that every access that passes the bounds
\* check refers to a slot.
C17_TriangularShape ==
  lattice # NoLattice =>
    /\ Len(lattice.tree_) = lattice.depth_ + 1
    /\ \A n \in 0..lattice.depth_ : Len(lattice.tree_[n + 1]) = n + 1
    /\ \A n \in TreeIndexArgs, i \in TreeIndexArgs :
         checkIndices(lattice, n, i) => hasSlot(lattice, n, i)

\* C18: after every setDepth(d) that succeeds, every node (n, i) with
\* 0 <= i <= n <= d holds T(), whatever was written before, and getNode
\* returns T() until a setNode.
C18_SetDepthResets ==
  /\ []((op = "setDepth" /\ err = "none") =>
          /\ lattice.depth_ = args.depth
          /\ \A n \in 0..args.depth : \A i \in 0..n :
               hasSlot(lattice, n, i)
               /\ getNode(lattice, n, i) = DefaultValue)
  /\ [][(op = "setDepth" /\ err = "none" /\ op' = "getNode"
         /\ err' = "none") => ret' = Ret(DefaultValue)]_vars

\* C18 witness: a setDepth to the depth the tree had, which held values in
\* all its nodes
C18_Witness ==
  /\ op = "setDepth" /\ err = "none"
  /\ args.depth = MaxTreeDepth
  /\ discarded = ((MaxTreeDepth + 1) * (MaxTreeDepth + 2)) \div 2

\* C19: BinaryTree(d) and setDepth(d) fail with std::invalid_argument
\* exactly when d < 0, leaving the tree as it was; otherwise they succeed
\* and depth() returns d.
C19_DepthValidation ==
  /\ []((op \in {"BinaryTree(depth)", "setDepth"}) =>
          /\ err = (IF args.depth < 0 THEN "invalid_argument" ELSE "none")
          /\ err = "none" => lattice.depth_ = args.depth)
  /\ [](op = "depth" => (err = "none" /\ ret = Ret(lattice.depth_)))
  /\ [][(op' \in {"BinaryTree(depth)", "setDepth"}
         /\ err' = "invalid_argument") => lattice' = lattice]_vars

\* C19 witness: depth() of a tree constructed with the largest depth
C19_Witness ==
  /\ op = "depth" /\ ret = Ret(MaxTreeDepth)
  /\ lattice.depth_ = MaxTreeDepth /\ nonDefault(lattice) = 0

\* C20: setNode(n, i, v) and getNode(n, i) fail with std::out_of_range
\* exactly when n < 0, n > depth(), i < 0 or i > n; otherwise setNode
\* stores v in node (n, i) and getNode returns the value of the node.
C20_NodeAccess ==
  (op \in {"setNode", "getNode"}) =>
    IF args.n < 0 \/ args.n > lattice.depth_ \/ args.i < 0 \/ args.i > args.n
    THEN err = "out_of_range" /\ ret = NoRet
    ELSE /\ err = "none"
         /\ hasSlot(lattice, args.n, args.i)
         /\ IF op = "setNode"
            THEN getNode(lattice, args.n, args.i) = args.value
            ELSE ret = Ret(getNode(lattice, args.n, args.i))

\* the slots of the tree t other than node (n, i)
otherSlots(t, n, i) ==
  {p \in Nodes : hasSlot(t, p[1], p[2]) /\ p # <<n, i>>}

\* C21: every getNode(n, i) that returns gives the value of the last
\* setNode at (n, i) that returned since the tree was last allocated, T()
\* if there was none; a setNode at one node changes neither depth() nor the
\* value of any other node.
C21_ReadsLastWrite ==
  /\ []((op = "getNode" /\ err = "none") =>
          ret = Ret(lastSet[<<args.n, args.i>>]))
  /\ [][op' = "setNode" =>
          /\ lattice'.depth_ = lattice.depth_
          /\ \A p \in otherSlots(lattice, args'.n, args'.i) :
               /\ hasSlot(lattice', p[1], p[2])
               /\ getNode(lattice', p[1], p[2]) = getNode(lattice, p[1], p[2])]_vars

\* C29: a setDepth(d) with d < 0 and a setNode(n, i, v) with (n, i) out of
\* range raise their error and leave the tree as it was: depth() and the
\* value of every node are the same as before the call.
C29_FailureKeepsTree ==
  /\ [][(op' = "setDepth" /\ args'.depth < 0) =>
          /\ err' = "invalid_argument"
          /\ lattice' = lattice /\ lastSet' = lastSet]_vars
  /\ [][(op' = "setNode"
         /\ (args'.n < 0 \/ args'.n > lattice.depth_
             \/ args'.i < 0 \/ args'.i > args'.n)) =>
          /\ err' = "out_of_range"
          /\ lattice' = lattice /\ lastSet' = lastSet]_vars

\* C29 witness: a setDepth(-1) refused by a tree of the largest depth that
\* holds a value other than T() in every node
C29_Witness ==
  /\ op = "setDepth" /\ err = "invalid_argument"
  /\ lattice.depth_ = MaxTreeDepth
  /\ nonDefault(lattice) = ((MaxTreeDepth + 1) * (MaxTreeDepth + 2)) \div 2

\* ------------------------------------------------------------------------
\* Properties of compute() (checked under SpecCRR)
\* ------------------------------------------------------------------------

\* the stored value and exercise flag of node (n, i)
V(n, i) == getNode(optionTree_, n, i)
exerciseFlag(n, i) == getNode(exerciseTree_, n, i)

\* the spot S0 * U^i * D^(n - i) of node (n, i) and the payoff at it
nodeSpot(n, i) == RMul(RMul(S0_, RPow(U_, i)), RPow(D_, n - i))
intrinsicAt(n, i) == payoff(option_, nodeSpot(n, i))

\* q = (R - D) / (U - D)
qOfPricer == RDiv(RSub(R_, D_), RSub(U_, D_))

\* (q * V(n+1, i+1) + (1 - q) * V(n+1, i)) / R
contAt(n, i) ==
  RDiv(RAdd(RMul(qOfPricer, V(n + 1, i + 1)),
            RMul(RSub(One, qOfPricer), V(n + 1, i))), R_)

\* the nodes (n, i) with 0 <= i <= n < depth
innerNodes == {p \in (0..(depth_ - 1)) \X (0..(depth_ - 1)) : p[2] <= p[1]}

\* C27: after compute(), every non-terminal node of a pricer whose option
\* is not American holds the continuation value and a false exercise flag;
\* on an American option a node holds the intrinsic value and a true flag
\* when intrinsic >= continuation (ties exercise), else the continuation
\* value and a false flag.
C27_BackwardInduction ==
  (pricer = "crr" /\ computed_) =>
    \A p \in innerNodes :
      LET n == p[1]
          i == p[2]
      IN  IF option_.kind \in AmericanKinds
             /\ RLe(contAt(n, i), intrinsicAt(n, i))
          THEN V(n, i) = intrinsicAt(n, i) /\ exerciseFlag(n, i) = TRUE
          ELSE V(n, i) = contAt(n, i) /\ exerciseFlag(n, i) = FALSE

\* C27 witness: a computed American lattice of the largest depth with a
\* node exercised at a tie and a node that is not exercised
C27_Witness ==
  /\ pricer = "crr" /\ computed_ /\ depth_ = MaxDepth
  /\ option_.kind \in AmericanKinds
  /\ \E p \in innerNodes :
       exerciseFlag(p[1], p[2]) /\ contAt(p[1], p[2]) = intrinsicAt(p[1], p[2])
  /\ \E p \in innerNodes : ~exerciseFlag(p[1], p[2])

\* C28: after compute(), every terminal node (depth, i) holds the payoff at
\* S0 * U^i * D^(depth - i), and its exercise flag is true exactly when the
\* option is American and that payoff is non-negative.
C28_TerminalLevel ==
  (pricer = "crr" /\ computed_) =>
    \A i \in 0..depth_ :
      /\ V(depth_, i) = intrinsicAt(depth_, i)
      /\ exerciseFlag(depth_, i) =
           (option_.kind \in AmericanKinds /\ RLe(Zero, intrinsicAt(depth_, i)))

\* the European option with the payoff function of the American option o
europeanTwin(o) ==
  [o EXCEPT !.kind = IF o.kind = "AmericanCall" THEN "Call" ELSE "Put"]

\* the root of the lattice of the European twin under the pricer's S0, U,
\* D, R and depth
europeanRoot ==
  getNode(compute(europeanTwin(option_), depth_, S0_, U_, D_, R_, trees).option,
          0, 0)

\* C30: after compute() on an American option, 0 < q < 1, every
\* non-terminal node value is at least the intrinsic value and at least the
\* continuation value of the node, and the root value is not below the root
\* value of the European option with the same payoff function, S0, U, D, R
\* and depth.
C30_AmericanDominates ==
  (pricer = "crr" /\ computed_ /\ option_.kind \in AmericanKinds) =>
    /\ RLt(Zero, qOfPricer) /\ RLt(qOfPricer, One)
    /\ \A p \in innerNodes :
         /\ RLe(intrinsicAt(p[1], p[2]), V(p[1], p[2]))
         /\ RLe(contAt(p[1], p[2]), V(p[1], p[2]))
    /\ \A n \in 0..depth_ : \A i \in 0..n :
         payoff(europeanTwin(option_), nodeSpot(n, i)) = intrinsicAt(n, i)
    /\ RLe(europeanRoot, V(0, 0))

\* C30 witness: a computed American lattice of the largest depth whose root
\* is worth more than the root of the European option
C30_Witness ==
  /\ pricer = "crr" /\ computed_ /\ depth_ = MaxDepth
  /\ option_.kind \in AmericanKinds
  /\ RLt(europeanRoot, V(0, 0))
  /\ \E p \in innerNodes : RLt(contAt(p[1], p[2]), V(p[1], p[2]))

\* ------------------------------------------------------------------------
\* Properties of the closed-form pricer (checked under SpecBS)
\* ------------------------------------------------------------------------

\* the Black-Scholes value of the pricer's option: S N(d1) - K e^(-rT) N(d2)
\* for a call and K e^(-rT) N(-d2) - S N(-d1) for a put, e^(-rT) N(d2) and
\* e^(-rT) N(-d2) for the digital call and put
blackScholesValue ==
  LET d == computeDValues(option_, strike_, asset_price_, interest_rate_,
                          volatility_)
      discount == Exp(RNeg(RMul(interest_rate_, option_.expiry)))
      discountedStrike == RMul(strike_, discount)
  IN  CASE option_.kind = "Call" ->
             RSub(RMul(asset_price_, normalCdf(d.d1)),
                  RMul(discountedStrike, normalCdf(d.d2)))
        [] option_.kind = "Put" ->
             RSub(RMul(discountedStrike, normalCdf(RNeg(d.d2))),
                  RMul(asset_price_, normalCdf(RNeg(d.d1))))
        [] option_.kind = "DigitalCall" -> RMul(discount, normalCdf(d.d2))
        [] option_.kind = "DigitalPut" ->
             RMul(discount, normalCdf(RNeg(d.d2)))

====
